---- MODULE Spec2Model ----
(***************************************************************************)
(* Model of src/redisdump/redisdump.go: the concurrent dump pipeline of    *)
(* DumpDB (dispatcher, nWorkers workers running dumpKeysWorker/dumpKeys,   *)
(* the error collector goroutine), DumpServer that runs it for every       *)
(* database of the server, and the pure helpers they use.                  *)
(*                                                                         *)
(* Spec is a call of DumpDB, SingleSpec one with batches of a single key,  *)
(* ServerSpec a call of DumpServer, HelperSpec the calls of RESPSerializer,*)
(* parseKeyspaceInfo and zsetToRedisCmd on their own.                      *)
(*                                                                         *)
(* Channels of the code are unbuffered; a send and its receive are one     *)
(* joint step of the two goroutines (SendBatch, SendError, RecvDone).      *)
(* A store round trip (client.Do) touches no state of the program, so the  *)
(* round trips of one key are folded into the step that ends with the      *)
(* write to the sink they lead to. The end of a worker's range loop is     *)
(* folded into its send on done.                                           *)
(***************************************************************************)
EXTENDS Integers, Sequences, FiniteSets, TLC

\* ---------------------------------------------------------------- bounds
\* Largest number of keys the KEYS * scan returns.
MaxKeys == 3
\* Largest worker count passed to DumpDB.
MaxWorkers == 2
\* batchSize of DumpDB (redisdump.go:260 sets 100), scaled down so that a
\* key list of MaxKeys keys is cut into several batches.
batchSize == 2

\* ------------------------------------------------------- store and inputs
KeyNames == <<"k1", "k2", "k3", "k4", "k5">>

\* The key list a scan of n keys returns.
KeyList(n) == [j \in 1..n |-> KeyNames[j]]

AllKeys == {KeyNames[j] : j \in 1..Len(KeyNames)}

\* The replies of the store to TYPE.
TypeReplies == {"string", "none", "stream"}

\* The replies of the store to TTL: -2 no such key, -1 no expiry, seconds.
TTLReplies == {-2, -1, 0, 30}

\* The readings of time.Now().Unix().
UnixTimes == {1000}

\* The value the store holds for a key of each type.
StringReply == "v"
ListReply == <<"a", "b">>
SetReply == <<"a", "b">>
HashReply == [f1 |-> "v1", f2 |-> "v2"]
ZsetReply == <<"m1", "1", "m2", "2">>

\* The values of the progress argument: nil, a channel a consumer drains,
\* a channel nobody receives from.
ProgressKinds == {"nil", "drained", "blocked"}

\* ------------------------------------------------------------ pure helpers
min(a, b) == IF a <= b THEN a ELSE b

Digit(d) == <<"0", "1", "2", "3", "4", "5", "6", "7", "8", "9">>[d + 1]

RECURSIVE NatToStr(_)
NatToStr(n) == IF n < 10 THEN Digit(n) ELSE NatToStr(n \div 10) \o Digit(n % 10)

\* fmt.Sprint / strconv.Itoa of an integer.
Itoa(n) == IF n < 0 THEN "-" \o NatToStr(-n) ELSE NatToStr(n)

ttlToRedisCmd(k, val, now) == <<"EXPIREAT", k, Itoa(now + val)>>

stringToRedisCmd(k, val) == <<"SET", k, val>>

setToRedisCmd(k, val) == <<"SADD", k>> \o val

listToRedisCmd(k, val) == <<"RPUSH", k>> \o val

\* The orders in which range visits the entries of a map.
MapOrders(val) ==
    {o \in [1..Cardinality(DOMAIN val) -> DOMAIN val] :
        \A a, b \in DOMAIN o : a # b => o[a] # o[b]}

RECURSIVE HashArgs(_, _)
HashArgs(val, o) ==
    IF o = <<>> THEN <<>>
    ELSE <<Head(o), val[Head(o)]>> \o HashArgs(val, Tail(o))

\* hashToRedisCmd: one command per iteration order of the map.
hashToRedisCmd(k, val) == {<<"HSET", k>> \o HashArgs(val, o) : o \in MapOrders(val)}

RECURSIVE ZsetArgs(_, _, _)
ZsetArgs(val, j, key) ==
    IF j > Len(val) THEN <<>>
    ELSE IF (j - 1) % 2 = 0 THEN ZsetArgs(val, j + 1, val[j])
    ELSE <<val[j], key>> \o ZsetArgs(val, j + 1, key)

\* ZsetArgs with the member before its score.
RECURSIVE ZsetArgsMemberFirst(_, _, _)
ZsetArgsMemberFirst(val, j, key) ==
    IF j > Len(val) THEN <<>>
    ELSE IF (j - 1) % 2 = 0 THEN ZsetArgsMemberFirst(val, j + 1, val[j])
    ELSE <<key, val[j]>> \o ZsetArgsMemberFirst(val, j + 1, key)

zsetToRedisCmdMemberFirst(k, val) == <<"ZADD", k>> \o ZsetArgsMemberFirst(val, 1, "")

zsetToRedisCmd(k, val) == <<"ZADD", k>> \o ZsetArgs(val, 1, "")

\* ------------------------------------------------------ text as bytes
\* A Go string the code looks into is a sequence of its bytes, each written
\* as a string of one character.
CRLF == <<"\r", "\n">>

RECURSIVE NatToBytes(_)
NatToBytes(n) ==
    IF n < 10 THEN <<Digit(n)>> ELSE Append(NatToBytes(n \div 10), Digit(n % 10))

\* strconv.Itoa of a length.
ItoaBytes(n) == NatToBytes(n)

RECURSIVE Flatten(_)
Flatten(ss) == IF ss = <<>> THEN <<>> ELSE Head(ss) \o Flatten(Tail(ss))

\* Bulk without the length line.
BulkInline(arg) == arg \o CRLF

\* redisdump.go:67-68: "$" + strconv.Itoa(len(arg)) + "\r\n" and
\* arg + "\r\n".
Bulk(arg) == <<"$">> \o ItoaBytes(Len(arg)) \o CRLF \o arg \o CRLF

\* redisdump.go:63-72.
RESPSerializer(cmd) ==
    <<"*">> \o ItoaBytes(Len(cmd)) \o CRLF
        \o Flatten([j \in 1..Len(cmd) |-> Bulk(cmd[j])])

\* redisdump.go:170, bufio.Scanner with its default split function: the
\* lines of text. A line ends at LF, a CR before the LF is dropped, a last
\* line without LF counts when it is not empty.
ScanLines(text) ==
    LET ends == {p \in 1..Len(text) : text[p] = "\n"}
        n == Cardinality(ends)
        End(j) == CHOOSE p \in ends : Cardinality({q \in ends : q < p}) = j - 1
        Start(j) == IF j = 1 THEN 1 ELSE End(j - 1) + 1
        DropCR(l) == IF l # <<>> /\ l[Len(l)] = "\r"
                        THEN SubSeq(l, 1, Len(l) - 1) ELSE l
        rest == SubSeq(text, IF n = 0 THEN 1 ELSE End(n) + 1, Len(text))
    IN [j \in 1..n |-> DropCR(SubSeq(text, Start(j), End(j) - 1))]
           \o (IF rest = <<>> THEN <<>> ELSE <<DropCR(rest)>>)

IsSpace(c) == c \in {" ", "\t", "\n", "\r"}

RECURSIVE TrimLeft(_)
TrimLeft(s) == IF s # <<>> /\ IsSpace(Head(s)) THEN TrimLeft(Tail(s)) ELSE s

RECURSIVE TrimRight(_)
TrimRight(s) ==
    IF s # <<>> /\ IsSpace(s[Len(s)]) THEN TrimRight(SubSeq(s, 1, Len(s) - 1)) ELSE s

\* strings.TrimSpace (redisdump.go:173).
TrimSpace(s) == TrimRight(TrimLeft(s))

\* strings.HasPrefix (redisdump.go:174).
HasPrefix(s, prefix) == Len(s) >= Len(prefix) /\ SubSeq(s, 1, Len(prefix)) = prefix

\* strings.IndexAny (redisdump.go:178): the index, from 0, of the first byte
\* of s that is in chars, -1 when there is none.
IndexAny(s, chars) ==
    IF \E p \in 1..Len(s) : s[p] \in chars
       THEN (CHOOSE p \in 1..Len(s) :
                /\ s[p] \in chars
                /\ \A q \in 1..(p - 1) : s[q] \notin chars) - 1
       ELSE -1

RECURSIVE DecimalValue(_, _)
DecimalValue(s, acc) ==
    IF s = <<>> THEN acc
    ELSE DecimalValue(Tail(s),
                      10 * acc + (CHOOSE d \in 0..9 : Digit(d) = Head(s)))

\* strconv.ParseUint(s, 10, 8) (redisdump.go:179): an error for the empty
\* string, for a byte that is no digit and for a value above 255.
ParseUint8(s) ==
    IF s = <<>> \/ \E p \in 1..Len(s) : \A d \in 0..9 : Digit(d) # s[p]
       THEN [err |-> TRUE, n |-> 0]
    ELSE IF DecimalValue(s, 0) > 255 THEN [err |-> TRUE, n |-> 0]
    ELSE [err |-> FALSE, n |-> DecimalValue(s, 0)]

\* What parseKeyspaceInfo returns: indices and a nil error, nil and an
\* error, or it does not return because the slice expression panicked.
Indices(dbs) == [kind |-> "ok", dbs |-> dbs]
ParseFailed == [kind |-> "err", dbs |-> <<>>]
Panicked == [kind |-> "panic", dbs |-> <<>>]

\* redisdump.go:171-189: the loop over the lines, dbs the indices appended
\* so far. line[2:strings.IndexAny(line, ":")] panics when the line has no
\* colon, since the upper bound is then -1.
RECURSIVE ParseLines(_, _)
ParseLines(lines, dbs) ==
    IF lines = <<>> THEN Indices(dbs)
    ELSE LET line == TrimSpace(Head(lines))
             colon == IndexAny(line, {":"})
         IN IF ~HasPrefix(line, <<"d", "b">>) THEN ParseLines(Tail(lines), dbs)
            ELSE IF colon < 2 THEN Panicked
            ELSE LET dbIndex == ParseUint8(SubSeq(line, 3, colon)) IN
                 IF dbIndex.err THEN ParseFailed
                 ELSE IF dbIndex.n > 16 THEN ParseFailed
                 ELSE ParseLines(Tail(lines), Append(dbs, dbIndex.n))

\* redisdump.go:167-192.
parseKeyspaceInfo(keyspaceInfo) == ParseLines(ScanLines(keyspaceInfo), <<>>)

\* The types the switch of dumpKeys builds a command for.
ValueTypes == {"string", "list", "set", "hash", "zset"}

\* The commands dumpKeys can build for a key of a value type.
ValueCmds(t, k) ==
    CASE t = "string" -> {stringToRedisCmd(k, StringReply)}
      [] t = "list" -> {listToRedisCmd(k, ListReply)}
      [] t = "set" -> {setToRedisCmd(k, SetReply)}
      [] t = "hash" -> hashToRedisCmd(k, HashReply)
      [] t = "zset" -> {zsetToRedisCmd(k, ZsetReply)}

\* The errors of dumpKeys.
TransportError == [kind |-> "transport", key |-> "", type |-> ""]
UnrecognizedType(k, t) == [kind |-> "unrecognized", key |-> k, type |-> t]

\* ------------------------------------------------------------------ state
VARIABLES
    spc,        \* position of DumpServer, "direct" when DumpDB is called alone
    dbs,        \* the database indices getDBIndexes returned
    dbi,        \* position in dbs of the loop of DumpServer
    db,         \* argument of DumpDB
    sret,       \* return value of DumpServer: "none" (running), "nil", "err"
    calls,      \* the DumpDB calls of DumpServer, in order, each with the
                \* database and, once it has returned, what it returned
    orphans,    \* the errors held by the collectors of DumpDB calls that
                \* have returned
    call,       \* the helper function called and its arguments
    result,     \* what the helper function returned
    bsz,        \* batchSize of DumpDB
    nWorkers,   \* argument of DumpDB
    progress,   \* argument of DumpDB, one of ProgressKinds
    pc,         \* position of DumpDB
    ret,        \* return value of DumpDB: "none" (running), "nil", "err"
    stage,      \* the last store operation of DumpDB's set-up that succeeded
    keys,       \* the key list the scan returned
    i,          \* loop index of the dispatch loop
    batchEnd,   \* batchEnd of the current iteration
    seen,       \* the value of nErrors the loop condition read last
    closed,     \* keyBatches is closed
    nDone,      \* number of done signals received
    nErrors,    \* error count of the collector
    cpc,        \* position of the collector goroutine
    cerr,       \* the error the collector holds
    stderr,     \* the errors written to os.Stderr
    wpc,        \* position of each worker
    wbatch,     \* the batch each worker holds
    wpos,       \* index in wbatch of the key a worker is at
    wcmd,       \* redisCmd of the worker's dumpKeys call
    werr,       \* the error the worker's dumpKeys call returned
    sink,       \* what was written to logger, in order
    sent,       \* the batches sent on keyBatches, in order
    notes,      \* the ProgressNotifications sent on progress, in order
    keyType,    \* per key: the reply to its TYPE query
    failed,     \* the keys at which dumpKeys returned an error
    late,       \* number of batches sent while nErrors was not zero
    finished,   \* number of dumpKeys calls that have returned
    expiry,     \* per key: whether its TTL reply was positive and, if so,
                \* the reply and the clock reading
    kd,         \* the count the dispatcher is ordered after (happens-before)
    kw          \* the count each worker is ordered after

vars == <<spc, dbs, dbi, db, sret, calls, orphans, call, result, bsz,
          nWorkers, progress, pc, ret, stage, keys, i, batchEnd, seen, closed, nDone,
          nErrors, cpc, cerr, stderr, wpc, wbatch, wpos, wcmd, werr, sink,
          sent, late, notes, keyType, failed, finished, expiry, kd, kw>>

serverVars == <<spc, dbs, dbi, db, sret, calls, orphans>>
envVars == <<call, result, bsz, serverVars>>
dispatcherVars == <<pc, ret, stage, keys, i, batchEnd, seen, closed, nDone>>
collectorVars == <<nErrors, cpc, cerr, stderr>>
workerVars == <<wpc, wbatch, wpos, wcmd, werr>>
historyVars == <<sent, late, notes, keyType, failed, finished, expiry>>
orderVars == <<kd, kw>>

Workers == 1..nWorkers

\* What is kept of the TTL query of a key.
Expiry(is, ttl, now) == [is |-> is, ttl |-> ttl, now |-> now]

NoError == [kind |-> "", key |-> "", type |-> ""]

\* The variables of a DumpDB call and what is kept about it, when DumpDB
\* is entered.
Locals ==
    /\ ret = "none"
    /\ stage = "none"
    /\ keys = <<>>
    /\ i = 0
    /\ batchEnd = 0
    /\ seen = 0
    /\ closed = FALSE
    /\ nDone = 0
    /\ nErrors = 0
    /\ cpc = "recv"
    /\ cerr = NoError
    /\ wpc = [w \in 1..MaxWorkers |-> "unstarted"]
    /\ wbatch = [w \in 1..MaxWorkers |-> <<>>]
    /\ wpos = [w \in 1..MaxWorkers |-> 0]
    /\ wcmd = [w \in 1..MaxWorkers |-> <<>>]
    /\ werr = [w \in 1..MaxWorkers |-> NoError]
    /\ sent = <<>>
    /\ late = 0
    /\ notes = <<>>
    /\ keyType = [k \in AllKeys |-> "unqueried"]
    /\ failed = {}
    /\ finished = 0
    /\ expiry = [k \in AllKeys |-> Expiry("unqueried", 0, 0)]
    /\ kd = 0
    /\ kw = [w \in 1..MaxWorkers |-> 0]

\* The state in which DumpDB is entered when the program has written
\* nothing yet.
Entry ==
    /\ pc = "pool"
    /\ Locals
    /\ sink = <<>>
    /\ stderr = <<>>

\* DumpDB is called on database 0, not by DumpServer.
NoServer ==
    /\ spc = "direct"
    /\ dbs = <<>>
    /\ dbi = 0
    /\ db = 0
    /\ sret = "none"
    /\ calls = <<>>
    /\ orphans = <<>>

\* No helper function is called on its own.
NoCall == [fn |-> "", key |-> "", arg |-> <<>>]
NoResult == [done |-> FALSE, val |-> <<>>]

\* A call of DumpDB.
Init ==
    /\ NoServer
    /\ call = NoCall
    /\ result = NoResult
    /\ bsz = batchSize
    /\ nWorkers \in 0..MaxWorkers
    /\ progress \in ProgressKinds
    /\ Entry

\* logger.Print(serializer(cmd)) while at key k ("" for DumpDB itself).
\* The sink keeps the command handed to the serializer.
LogLine(k, cmd) == [key |-> k, cmd |-> cmd]

Write(s, line) == Append(s, line)

\* --------------------------------------------------------------- DumpDB
Max(a, b) == IF a >= b THEN a ELSE b

\* The values a read of nErrors by DumpDB can return. The read races with
\* nErrors++ of the collector goroutine: it returns the current count or an
\* older one, but none older than the count DumpDB is ordered after.
ReadNErrors == kd..nErrors

\* redisdump.go:238-241: the pool is created, or DumpDB returns the error.
NewPool ==
    /\ pc = "pool"
    /\ \/ pc' = "select" /\ stage' = "pool" /\ ret' = ret
       \/ pc' = "returned" /\ ret' = "err" /\ stage' = stage
    /\ UNCHANGED <<envVars, nWorkers, progress, keys, i, batchEnd, seen, closed, nDone,
                   collectorVars, workerVars, sink, historyVars, orderVars>>

\* Select with the error of the store's SELECT ignored.
SelectUnchecked ==
    /\ pc = "select"
    /\ pc' = "logselect"
    /\ \/ stage' = "select"
       \/ stage' = stage
    /\ UNCHANGED <<envVars, nWorkers, progress, ret, keys, i, batchEnd, seen, closed,
                   nDone, collectorVars, workerVars, sink, historyVars,
                   orderVars>>

\* redisdump.go:244-246: SELECT on the store, or DumpDB returns the error.
Select ==
    /\ pc = "select"
    /\ \/ pc' = "logselect" /\ stage' = "select" /\ ret' = ret
       \/ pc' = "returned" /\ ret' = "err" /\ stage' = stage
    /\ UNCHANGED <<envVars, nWorkers, progress, keys, i, batchEnd, seen, closed, nDone,
                   collectorVars, workerVars, sink, historyVars, orderVars>>

\* redisdump.go:247: []string{"SELECT", fmt.Sprint(db)}.
SelectCmd == <<"SELECT", Itoa(db)>>

\* redisdump.go:247: the SELECT command is written to the sink.
LogSelect ==
    /\ pc = "logselect"
    /\ sink' = Write(sink, LogLine("", SelectCmd))
    /\ pc' = "scan"
    /\ UNCHANGED <<envVars, nWorkers, progress, ret, stage, keys, i, batchEnd, seen,
                   closed, nDone, collectorVars, workerVars, historyVars,
                   orderVars>>

\* Largest number of keys of a database when a whole server is dumped.
MaxServerKeys == 1

\* The numbers of keys the scan can return.
ScanSizes == IF spc = "direct" THEN 0..MaxKeys ELSE 0..MaxServerKeys

\* redisdump.go:249-252: KEYS *, or DumpDB returns the error.
Scan ==
    /\ pc = "scan"
    /\ \/ \E n \in ScanSizes :
            /\ keys' = KeyList(n)
            /\ pc' = "spawn"
            /\ stage' = "scan"
            /\ ret' = ret
       \/ pc' = "returned" /\ ret' = "err" /\ keys' = keys /\ stage' = stage
    /\ UNCHANGED <<envVars, nWorkers, progress, i, batchEnd, seen, closed, nDone,
                   collectorVars, workerVars, sink, historyVars, orderVars>>

\* redisdump.go:254-258: the channels are made and nWorkers workers started;
\* redisdump.go:260-261: the loop starts at i = 0.
StartWorkers ==
    /\ pc = "spawn"
    /\ wpc' = [w \in 1..MaxWorkers |-> IF w \in Workers THEN "recv" ELSE wpc[w]]
    /\ i' = 0
    /\ pc' = "check"
    /\ UNCHANGED <<envVars, nWorkers, progress, ret, stage, keys, batchEnd, seen,
                   closed, nDone,
                   collectorVars, wbatch, wpos, wcmd, werr, sink, historyVars,
                   orderVars>>

\* LoopCond without the test of the error count.
LoopCondNoErrors(idx, n, errs) == idx < n

\* redisdump.go:261: the loop condition, errs the value read from nErrors.
LoopCond(idx, n, errs) == idx < n /\ errs = 0

\* redisdump.go:262.
BatchEnd(idx, n) == min(idx + bsz, n)

\* redisdump.go:263: keys[i:batchEnd].
Slice(s, from, to) == SubSeq(s, from + 1, to)

\* NextIndex one short, so that batches overlap.
NextIndexOverlap(idx) == idx + bsz - 1

\* redisdump.go:261: i += batchSize.
NextIndex(idx) == idx + bsz

\* ProgressNotification with its fields exchanged.
ProgressNotificationSwapped(done, total) == [Done |-> total, Total |-> done]

\* ProgressNotification with the start of the batch in place of its end.
ProgressNotificationStart(done, total) == [Done |-> i, Total |-> total]

\* redisdump.go:265.
ProgressNotification(done, total) == [Done |-> done, Total |-> total]

\* redisdump.go:264.
SendsProgress(p) == p # "nil"

\* redisdump.go:261-262: the loop condition is evaluated; && reads nErrors
\* only when i < len(keys).
LoopCheck ==
    /\ pc = "check"
    /\ \E errs \in IF i < Len(keys) THEN ReadNErrors ELSE {seen} :
          /\ seen' = errs
          /\ IF LoopCond(i, Len(keys), errs)
                THEN /\ batchEnd' = BatchEnd(i, Len(keys))
                     /\ pc' = "send"
                ELSE /\ batchEnd' = batchEnd
                     /\ pc' = "close"
    /\ UNCHANGED <<envVars, nWorkers, progress, ret, stage, keys, i, closed, nDone,
                   collectorVars, workerVars, sink, historyVars, orderVars>>

\* The workers run the same code on the same channels and pool, so workers
\* in the same local state are interchangeable: of these, the one of least
\* index takes a step that any of them could take.
Local(w) == <<wpc[w], wbatch[w], wpos[w], wcmd[w], werr[w], kw[w]>>

First(w) == \A v \in Workers : v < w => Local(v) # Local(w)

\* A receive from any position of the worker's code.
ReceivingAnywhere(w) == wpc[w] # "unstarted"

\* redisdump.go:152: worker w is at the receive of range keyBatches.
Receiving(w) == wpc[w] = "recv"

\* What a worker does with a batch it received: dumpKeys starts at its first
\* key with an empty redisCmd (redisdump.go:80-84).
StartBatch(w, batch) ==
    /\ wbatch' = [wbatch EXCEPT ![w] = batch]
    /\ wpos' = [wpos EXCEPT ![w] = 1]
    /\ wcmd' = [wcmd EXCEPT ![w] = <<>>]
    /\ wpc' = [wpc EXCEPT ![w] = IF batch = <<>> THEN "recv" ELSE "key"]

\* redisdump.go:263 and 152: keyBatches <- keys[i:batchEnd], received by
\* worker w; then redisdump.go:264 and, without progress channel, i += batchSize.
SendBatch(w) ==
    /\ pc = "send"
    /\ w \in Workers
    /\ Receiving(w)
    /\ First(w)
    /\ StartBatch(w, Slice(keys, i, batchEnd))
    /\ sent' = Append(sent, Slice(keys, i, batchEnd))
    /\ late' = IF nErrors > 0 THEN late + 1 ELSE late
    /\ kd' = Max(kd, kw[w])
    /\ IF SendsProgress(progress)
          THEN pc' = "notify" /\ i' = i
          ELSE pc' = "check" /\ i' = NextIndex(i)
    /\ UNCHANGED <<envVars, nWorkers, progress, ret, stage, keys, batchEnd, seen,
                   closed, nDone,
                   collectorVars, werr, sink, notes, keyType, failed, finished,
                   expiry, kw>>

\* redisdump.go:265 and 261: progress <- ProgressNotification{batchEnd,
\* len(keys)}, received by the consumer; then i += batchSize.
Notify ==
    /\ pc = "notify"
    /\ progress = "drained"
    /\ notes' = Append(notes, ProgressNotification(batchEnd, Len(keys)))
    /\ i' = NextIndex(i)
    /\ pc' = "check"
    /\ UNCHANGED <<envVars, nWorkers, progress, ret, stage, keys, batchEnd, seen,
                   closed, nDone,
                   collectorVars, workerVars, sink, sent, late, keyType, failed,
                   finished, expiry, orderVars>>

\* redisdump.go:269: close(keyBatches).
Close ==
    /\ pc = "close"
    /\ closed' = TRUE
    /\ nDone' = 0
    /\ pc' = "wait"
    /\ UNCHANGED <<envVars, nWorkers, progress, ret, stage, keys, i, batchEnd, seen,
                   collectorVars, workerVars, sink, historyVars, orderVars>>

\* WaitCond one short: the last done signal is not awaited.
WaitCondShort(j, n) == j < n - 1

\* WaitCond one over: a done signal more than there are workers is awaited.
WaitCondLong(j, n) == j <= n

\* redisdump.go:271: the condition of the loop that receives from done.
WaitCond(j, n) == j < n

\* redisdump.go:152, 157 and 271-273: keyBatches is closed, so the range loop
\* of worker w ends and it sends on done; DumpDB receives it; the worker ends.
RecvDone(w) ==
    /\ pc = "wait"
    /\ WaitCond(nDone, nWorkers)
    /\ w \in Workers
    /\ Receiving(w)
    /\ closed
    /\ First(w)
    /\ wpc' = [wpc EXCEPT ![w] = "exit"]
    /\ nDone' = nDone + 1
    /\ UNCHANGED <<envVars, nWorkers, progress, pc, ret, stage, keys, i, batchEnd,
                   seen, closed,
                   collectorVars, wbatch, wpos, wcmd, werr, sink, historyVars,
                   orderVars>>

\* Return with the error count reported to the caller.
ReturnErrorCount ==
    /\ pc = "wait"
    /\ ~WaitCond(nDone, nWorkers)
    /\ ret' = IF nErrors > 0 THEN "err" ELSE "nil"
    /\ pc' = "returned"
    /\ UNCHANGED <<envVars, nWorkers, progress, stage, keys, i, batchEnd, seen, closed,
                   nDone, collectorVars, workerVars, sink, historyVars,
                   orderVars>>

\* redisdump.go:271 and 275: the loop over done ends, DumpDB returns nil.
Return ==
    /\ pc = "wait"
    /\ ~WaitCond(nDone, nWorkers)
    /\ ret' = "nil"
    /\ pc' = "returned"
    /\ UNCHANGED <<envVars, nWorkers, progress, stage, keys, i, batchEnd, seen, closed,
                   nDone,
                   collectorVars, workerVars, sink, historyVars, orderVars>>

\* ------------------------------------------------- dumpKeysWorker, dumpKeys
\* redisdump.go:82.
withTTL == TRUE

\* NextPos that skips a key.
NextPosSkip(pos) == pos + 2

\* redisdump.go:84: the range loop goes on to the next key.
NextPos(pos) == pos + 1

\* redisdump.go:148 and 88-139: dumpKeys returns; its locals are gone.
EndBatch(w) ==
    /\ wbatch' = [wbatch EXCEPT ![w] = <<>>]
    /\ wpos' = [wpos EXCEPT ![w] = 0]
    /\ wcmd' = [wcmd EXCEPT ![w] = <<>>]
    /\ finished' = finished + 1

\* redisdump.go:84 and 148: after the key at pos the loop goes on, or
\* dumpKeys returns nil and the worker receives again (redisdump.go:152).
\* cmd is redisCmd at the end of the iteration.
Advance(w, cmd) ==
    IF NextPos(wpos[w]) > Len(wbatch[w])
       THEN /\ EndBatch(w)
            /\ wpc' = [wpc EXCEPT ![w] = "recv"]
       ELSE /\ wpos' = [wpos EXCEPT ![w] = NextPos(wpos[w])]
            /\ wcmd' = [wcmd EXCEPT ![w] = cmd]
            /\ wpc' = [wpc EXCEPT ![w] = "key"]
            /\ UNCHANGED <<wbatch, finished>>

\* return err in dumpKeys (redisdump.go:89, 96, 103, 110, 117, 124, 131,
\* 139): the rest of the batch is left, the worker is at errors <- err
\* (redisdump.go:153-154).
ReturnErr(w, k, err) ==
    /\ werr' = [werr EXCEPT ![w] = err]
    /\ wpc' = [wpc EXCEPT ![w] = "senderr"]
    /\ failed' = failed \cup {k}
    /\ EndBatch(w)

\* Switch with the default case leaving redisCmd as it was, like "none".
SwitchDefaultKeeps(t, k) ==
    IF t \in ValueTypes THEN [do |-> "cmd", cmds |-> ValueCmds(t, k)]
    ELSE [do |-> "keep", cmds |-> {}]

\* redisdump.go:92-132: what the switch does with a key of type t, given
\* that the read of the value succeeded: "cmd" with the commands redisCmd
\* can be set to, "keep" when redisCmd is left as it was, "err".
Switch(t, k) ==
    IF t \in ValueTypes THEN [do |-> "cmd", cmds |-> ValueCmds(t, k)]
    ELSE IF t = "none" THEN [do |-> "keep", cmds |-> {}]
    ELSE [do |-> "err", cmds |-> {}]

\* redisdump.go:85-134: TYPE, the switch with the read of the value, and
\* logger.Print(serializer(redisCmd)).
DumpKeyValue(w) ==
    /\ w \in Workers
    /\ wpc[w] = "key"
    /\ LET k == wbatch[w][wpos[w]] IN
       \/ \* redisdump.go:87-90: TYPE fails
          /\ keyType' = [keyType EXCEPT ![k] = "error"]
          /\ ReturnErr(w, k, TransportError)
          /\ UNCHANGED sink
       \/ \E t \in TypeReplies :
             /\ keyType' = [keyType EXCEPT ![k] = t]
             /\ \/ \* the read of the value fails
                   /\ Switch(t, k).do = "cmd"
                            /\ ReturnErr(w, k, TransportError)
                   /\ UNCHANGED sink
                \/ \* redisdump.go:131
                   /\ Switch(t, k).do = "err"
                   /\ ReturnErr(w, k, UnrecognizedType(k, t))
                   /\ UNCHANGED sink
                \/ \E cmd \in IF Switch(t, k).do = "cmd" THEN Switch(t, k).cmds
                              ELSE IF Switch(t, k).do = "keep" THEN {wcmd[w]}
                              ELSE {} :
                      /\ sink' = Write(sink, LogLine(k, cmd))
                      /\ IF withTTL
                            THEN /\ wcmd' = [wcmd EXCEPT ![w] = cmd]
                                 /\ wpc' = [wpc EXCEPT ![w] = "ttl"]
                                 /\ UNCHANGED <<wbatch, wpos, finished>>
                            ELSE Advance(w, cmd)
                      /\ UNCHANGED <<werr, failed>>
    /\ UNCHANGED <<envVars, nWorkers, progress, dispatcherVars, collectorVars,
                   sent, late, notes, expiry, orderVars>>

\* EmitsExpire that takes a key without expiry for an expiring one.
EmitsExpireNonNegative(ttl) == ttl >= 0

\* redisdump.go:142: if ttl > 0.
EmitsExpire(ttl) == ttl > 0

\* redisdump.go:136-145: TTL, and EXPIREAT written when ttl > 0.
DumpKeyTTL(w) ==
    /\ w \in Workers
    /\ wpc[w] = "ttl"
    /\ LET k == wbatch[w][wpos[w]] IN
       \/ \* redisdump.go:138-140: TTL fails
          /\ ReturnErr(w, k, TransportError)
          /\ UNCHANGED <<sink, expiry>>
       \/ \E ttl \in TTLReplies, now \in UnixTimes :
             LET cmd == IF EmitsExpire(ttl) THEN ttlToRedisCmd(k, ttl, now)
                        ELSE wcmd[w] IN
             /\ IF EmitsExpire(ttl)
                   THEN sink' = Write(sink, LogLine(k, cmd))
                   ELSE UNCHANGED sink
             /\ expiry' = [expiry EXCEPT
                              ![k] = IF ttl > 0 THEN Expiry("positive", ttl, now)
                                     ELSE Expiry("none", 0, 0)]
             /\ Advance(w, cmd)
             /\ UNCHANGED <<werr, failed>>
    /\ UNCHANGED <<envVars, nWorkers, progress, dispatcherVars, collectorVars,
                   sent, late, notes, keyType, orderVars>>

\* redisdump.go:154 and 232: errors <- err, received by the collector; the
\* worker goes back to receiving from keyBatches.
SendError(w) ==
    /\ w \in Workers
    /\ wpc[w] = "senderr"
    /\ cpc = "recv"
    /\ cerr' = werr[w]
    /\ cpc' = "count"
    /\ wpc' = [wpc EXCEPT ![w] = "recv"]
    /\ werr' = [werr EXCEPT ![w] = NoError]
    /\ kw' = [kw EXCEPT ![w] = Max(kw[w], nErrors)]
    /\ UNCHANGED <<envVars, nWorkers, progress, dispatcherVars, nErrors, stderr, wbatch,
                   wpos, wcmd, sink, historyVars, kd>>

\* ------------------------------------------------------- error collector
\* redisdump.go:233-234: fmt.Fprintln(os.Stderr, "Error: "+err.Error()) and
\* nErrors++.
CollectorCount ==
    /\ cpc = "count"
    /\ stderr' = Append(stderr, cerr)
    /\ nErrors' = nErrors + 1
    /\ cpc' = "recv"
    /\ UNCHANGED <<envVars, nWorkers, progress, dispatcherVars, cerr, workerVars, sink,
                   historyVars, orderVars>>

\* ---------------------------------------------------------- specification
Dispatcher ==
    \/ NewPool
    \/ Select
    \/ LogSelect
    \/ Scan
    \/ StartWorkers
    \/ LoopCheck
    \/ Notify
    \/ Close
    \/ Return
    \/ \E w \in 1..MaxWorkers : SendBatch(w)
    \/ \E w \in 1..MaxWorkers : RecvDone(w)

Worker(w) ==
    \/ DumpKeyValue(w)
    \/ DumpKeyTTL(w)
    \/ SendError(w)

Collector == CollectorCount

Next ==
    \/ Dispatcher
    \/ \E w \in 1..MaxWorkers : Worker(w)
    \/ Collector

Spec == Init /\ [][Next]_vars

\* A call of DumpDB with batches of one key, so that a key list of MaxKeys
\* keys is cut into MaxKeys batches.
SingleInit ==
    /\ NoServer
    /\ call = NoCall
    /\ result = NoResult
    /\ bsz = 1
    /\ nWorkers \in 0..MaxWorkers
    /\ progress \in ProgressKinds
    /\ Entry

SingleSpec == SingleInit /\ [][Next]_vars

\* The scheduler runs every goroutine that can take a step, and a channel
\* operation completes once both sides are at it.
FairSpec ==
    /\ Spec
    /\ WF_vars(Dispatcher)
    /\ \A w \in 1..MaxWorkers : WF_vars(Worker(w))
    /\ WF_vars(Collector)

\* ------------------------------------------- the pure helpers on their own
\* Largest number of arguments of a command given to RESPSerializer.
MaxArgs == 2

\* The arguments of the commands: empty, with space, CR, LF, with the
\* markers of the encoding, and of a length of two digits.
RespArgs ==
    {<<>>,
     <<"a">>,
     <<" ">>,
     <<"\r">>,
     <<"\n">>,
     <<"\r", "\n">>,
     <<"$", "1">>,
     <<"a", " ", "b">>,
     <<"*", "1", "\r", "\n">>,
     <<"a", "a", "a", "a", "a", "a", "a", "a", "a", "a", "a", "a">>}

RECURSIVE SeqsUpTo(_, _)
\* The sequences of at most n elements of S.
SeqsUpTo(S, n) ==
    IF n = 0 THEN {<<>>}
    ELSE SeqsUpTo(S, n - 1) \cup {Append(s, x) : s \in SeqsUpTo(S, n - 1), x \in S}

\* The commands serialized: every short one, and one of eleven arguments.
RespCmds == SeqsUpTo(RespArgs, MaxArgs) \cup {[j \in 1..11 |-> <<"a">>]}

Called(fn, key, arg) == [fn |-> fn, key |-> key, arg |-> arg]
Returns(val) == [done |-> TRUE, val |-> val]

\* Largest number of lines of a keyspace text.
MaxInfoLines == 2

\* A line of a keyspace text: its bytes and what it is: the line of the
\* database of index n ("index"), a line that starts with db and has
\* something else than a number before its colon ("bad"), any other line.
InfoLine(bytes, is, n) == [bytes |-> bytes, is |-> is, n |-> n]

InfoLines ==
    {InfoLine(<<"#", " ", "K", "e", "y", "s", "p", "a", "c", "e">>, "other", 0),
     InfoLine(<<>>, "other", 0),
     InfoLine(<<"x", "d", "b", "1", ":", "k">>, "other", 0),
     InfoLine(<<"d", "b", "0", ":", "k", "e", "y", "s", "=", "1">>, "index", 0),
     InfoLine(<<"d", "b", "5", ":", "k">>, "index", 5),
     InfoLine(<<"d", "b", "1", "6", ":", "k">>, "index", 16),
     InfoLine(<<"d", "b", "0", "7", ":", "k">>, "index", 7),
     InfoLine(<<" ", "d", "b", "3", ":", "k", "\t">>, "index", 3),
     InfoLine(<<"d", "b", "1", "7", ":", "k">>, "index", 17),
     InfoLine(<<"d", "b", "3", "0", "0", ":", "k">>, "index", 300),
     InfoLine(<<"d", "b", "x", ":", "k">>, "bad", 0),
     InfoLine(<<"d", "b", ":", "k">>, "bad", 0),
     InfoLine(<<"d", "b", "-", "1", ":", "k">>, "bad", 0),
     InfoLine(<<"d", "b", "1", " ", ":", "k">>, "bad", 0),
     InfoLine(<<"d", "b", "s", "i", "z", "e">>, "other", 0)}

\* The line of database n as the store writes it.
DbLine(n) == InfoLine(<<"d", "b">> \o ItoaBytes(n) \o <<":", "k">>, "index", n)

\* The texts parsed: every short one, and one with the databases 0 to 16.
InfoTexts == SeqsUpTo(InfoLines, MaxInfoLines) \cup {[j \in 1..17 |-> DbLine(j - 1)]}

\* The bytes of a text whose lines end with eol.
TextOf(lines, eol) == Flatten([j \in 1..Len(lines) |-> lines[j].bytes \o eol])

\* The member and score strings of a sorted set reply.
ZsetStrings == {"a", "b", "1"}

\* Largest length of the reply given to zsetToRedisCmd.
MaxZsetLen == 4

\* serializer(redisCmd) with RESPSerializer (redisdump.go:134).
ApplyRESPSerializer ==
    /\ call.fn = "RESPSerializer"
    /\ ~result.done
    /\ result' = Returns(RESPSerializer(call.arg))
    /\ UNCHANGED <<serverVars, call, bsz, nWorkers, progress, dispatcherVars,
                   collectorVars,
                   workerVars, sink, historyVars, orderVars>>

\* parseKeyspaceInfo(keyspaceInfo) (redisdump.go:206).
ApplyParseKeyspaceInfo ==
    /\ call.fn = "parseKeyspaceInfo"
    /\ ~result.done
    /\ result' = Returns(parseKeyspaceInfo(call.arg.text))
    /\ UNCHANGED <<serverVars, call, bsz, nWorkers, progress, dispatcherVars,
                   collectorVars,
                   workerVars, sink, historyVars, orderVars>>

\* zsetToRedisCmd(key, val) (redisdump.go:126).
ApplyZsetToRedisCmd ==
    /\ call.fn = "zsetToRedisCmd"
    /\ ~result.done
    /\ result' = Returns(zsetToRedisCmd(call.key, call.arg))
    /\ UNCHANGED <<serverVars, call, bsz, nWorkers, progress, dispatcherVars,
                   collectorVars,
                   workerVars, sink, historyVars, orderVars>>

HelperInit ==
    /\ NoServer
    /\ \/ \E cmd \in RespCmds : call = Called("RESPSerializer", "", cmd)
       \/ \E ls \in InfoTexts, eol \in {<<"\n">>, CRLF} :
             call = Called("parseKeyspaceInfo", "",
                           [lines |-> ls, text |-> TextOf(ls, eol)])
       \/ \E val \in SeqsUpTo(ZsetStrings, MaxZsetLen) :
             call = Called("zsetToRedisCmd", "z", val)
    /\ result = NoResult
    /\ bsz = batchSize
    /\ nWorkers = 0
    /\ progress = "nil"
    /\ Entry

HelperNext ==
    \/ ApplyRESPSerializer
    \/ ApplyParseKeyspaceInfo
    \/ ApplyZsetToRedisCmd

HelperSpec == HelperInit /\ [][HelperNext]_vars

\* ------------------------------------------------------------- DumpServer
dumpVars == <<dispatcherVars, collectorVars, workerVars, sink, historyVars, orderVars>>

\* The replies of the store to INFO keyspace: no database, the databases 0
\* and 5 under the section header, a database index out of range, a line
\* that parseKeyspaceInfo panics at.
ServerInfoTexts ==
    {TextOf(<<>>, CRLF),
     TextOf(<<InfoLine(<<"#", " ", "K", "e", "y", "s", "p", "a", "c", "e">>, "other", 0),
              DbLine(0), DbLine(5)>>, CRLF),
     TextOf(<<DbLine(0), DbLine(17)>>, CRLF),
     TextOf(<<InfoLine(<<"d", "b", "s", "i", "z", "e">>, "other", 0)>>, CRLF)}

\* redisdump.go:282-285 and 194-207: getDBIndexes. The pool or INFO keyspace
\* fails, or the reply is parsed; DumpServer returns the error there is.
GetDBIndexes ==
    /\ spc = "getdb"
    /\ \/ /\ sret' = "err"
          /\ spc' = "returned"
          /\ UNCHANGED <<dbs, dbi>>
       \/ \E text \in ServerInfoTexts :
             LET parsed == parseKeyspaceInfo(text) IN
             /\ dbs' = parsed.dbs
             /\ dbi' = 1
             /\ spc' = CASE parsed.kind = "ok" -> "loop"
                         [] parsed.kind = "err" -> "returned"
                         [] parsed.kind = "panic" -> "panicked"
             /\ sret' = IF parsed.kind = "err" THEN "err" ELSE sret
    /\ UNCHANGED <<db, calls, orphans, call, result, bsz, nWorkers, progress, dumpVars>>

\* redisdump.go:226-236: DumpDB is entered anew, with variables of its own.
EnterDumpDB ==
    /\ pc' = "pool"
    /\ ret' = "none"
    /\ stage' = "none"
    /\ keys' = <<>>
    /\ i' = 0
    /\ batchEnd' = 0
    /\ seen' = 0
    /\ closed' = FALSE
    /\ nDone' = 0
    /\ nErrors' = 0
    /\ cpc' = "recv"
    /\ cerr' = NoError
    /\ wpc' = [w \in 1..MaxWorkers |-> "unstarted"]
    /\ wbatch' = [w \in 1..MaxWorkers |-> <<>>]
    /\ wpos' = [w \in 1..MaxWorkers |-> 0]
    /\ wcmd' = [w \in 1..MaxWorkers |-> <<>>]
    /\ werr' = [w \in 1..MaxWorkers |-> NoError]
    /\ sent' = <<>>
    /\ late' = 0
    /\ notes' = <<>>
    /\ keyType' = [k \in AllKeys |-> "unqueried"]
    /\ failed' = {}
    /\ finished' = 0
    /\ expiry' = [k \in AllKeys |-> Expiry("unqueried", 0, 0)]
    /\ kd' = 0
    /\ kw' = [w \in 1..MaxWorkers |-> 0]

\* Failed that takes every return value for nil.
FailedNever(err) == FALSE

\* redisdump.go:288: err != nil.
Failed(err) == err # "nil"

\* redisdump.go:287-288 and 293: the loop over dbs calls DumpDB for the next
\* database, which starts with variables of its own, or the loop is over and
\* DumpServer returns nil. The collector of the call before is left with
\* the error it holds.
ServerLoop ==
    /\ spc = "loop"
    /\ IF dbi <= Len(dbs)
          THEN /\ db' = dbs[dbi]
               /\ calls' = Append(calls, [db |-> dbs[dbi], ret |-> "none"])
               /\ orphans' = IF cpc = "count" THEN Append(orphans, cerr) ELSE orphans
               /\ spc' = "indb"
               /\ EnterDumpDB
               /\ UNCHANGED <<sret, sink, stderr>>
          ELSE /\ sret' = "nil"
               /\ spc' = "returned"
               /\ UNCHANGED <<db, calls, orphans, dumpVars>>
    /\ UNCHANGED <<dbs, dbi, call, result, bsz, nWorkers, progress>>

\* redisdump.go:288-290: DumpDB has returned; DumpServer returns its error
\* or goes on with the next database.
DumpDBReturns ==
    /\ spc = "indb"
    /\ pc = "returned"
    /\ calls' = [calls EXCEPT ![Len(calls)].ret = ret]
    /\ IF Failed(ret)
          THEN sret' = "err" /\ spc' = "returned" /\ dbi' = dbi
          ELSE sret' = sret /\ spc' = "loop" /\ dbi' = dbi + 1
    /\ UNCHANGED <<dbs, db, orphans, call, result, bsz, nWorkers, progress, dumpVars>>

\* redisdump.go:233-234 in the collector of a DumpDB call that has
\* returned: it writes the error it holds; its nErrors is read no more.
OrphanCount ==
    /\ \E j \in 1..Len(orphans) :
          /\ stderr' = Append(stderr, orphans[j])
          /\ orphans' = [m \in 1..(Len(orphans) - 1) |->
                            IF m < j THEN orphans[m] ELSE orphans[m + 1]]
    /\ UNCHANGED <<spc, dbs, dbi, db, sret, calls, call, result, bsz, nWorkers,
                   progress, dispatcherVars, nErrors, cpc, cerr, workerVars,
                   sink, historyVars, orderVars>>

\* A call of DumpServer.
ServerInit ==
    /\ spc = "getdb"
    /\ dbs = <<>>
    /\ dbi = 0
    /\ db = 0
    /\ sret = "none"
    /\ calls = <<>>
    /\ orphans = <<>>
    /\ call = NoCall
    /\ result = NoResult
    /\ bsz = batchSize
    /\ nWorkers \in 0..MaxWorkers
    /\ progress \in ProgressKinds
    /\ pc = "uncalled"
    /\ Locals
    /\ sink = <<>>
    /\ stderr = <<>>

ServerNext ==
    \/ GetDBIndexes
    \/ ServerLoop
    \/ DumpDBReturns
    \/ OrphanCount
    \/ Next

ServerSpec == ServerInit /\ [][ServerNext]_vars

\* ------------------------------------------------------------- properties
Returned == pc = "returned"

\* The keys whose TYPE was queried.
Fetched == {k \in AllKeys : keyType[k] # "unqueried"}

RECURSIVE Concat(_)
Concat(ss) == IF ss = <<>> THEN <<>> ELSE Head(ss) \o Concat(Tail(ss))

\* The keys written about in the sink.
LinesOf(k) == {j \in 1..Len(sink) : sink[j].key = k}

C2_NoneKeyWritesNothing ==
    \A k \in AllKeys : keyType[k] = "none" => LinesOf(k) = {}

\* C3 as stated: no batch is sent on keyBatches while nErrors > 0.
C3_NoSendWhileErrors == [][sent' # sent => nErrors = 0]_vars

\* C3 amended: a batch is sent only after a loop condition that read
\* nErrors as zero, and once the loop condition has read a non-zero count
\* DumpDB is past the loop and sends no batch any more.
C3_NoSendAfterErrorsSeen ==
    [][/\ sent' # sent => seen = 0
       /\ seen' # 0 => pc' \in {"close", "wait", "returned"}
       /\ seen # 0 => sent' = sent]_vars

\* C3 witness: the loop was stopped by the error count with keys left to
\* submit.
C3_Witness ==
    /\ seen # 0
    /\ closed
    /\ i < Len(keys)
    /\ Len(sent) >= 1

\* C4: the batches sent are contiguous slices of the key list, in order,
\* none empty, each but the last of batchSize keys; without a per-key error
\* they cover the whole key list once the loop has ended.
C4_BatchesCutKeyList ==
    /\ \A b \in 1..Len(sent) :
          /\ Len(sent[b]) >= 1
          /\ Len(sent[b]) <= bsz
          /\ b < Len(sent) => Len(sent[b]) = bsz
    /\ Len(Concat(sent)) <= Len(keys)
    /\ Concat(sent) = SubSeq(keys, 1, Len(Concat(sent)))
    /\ (failed = {} /\ pc \in {"close", "wait", "returned"}) => Concat(sent) = keys

\* C4 witness: the keys went out as full batches and a rest, no key failed.
C4_Witness ==
    /\ Returned
    /\ failed = {}
    /\ Len(keys) > bsz
    /\ Len(sent) >= 2
    /\ Len(sent[Len(sent)]) < bsz

NoWorkerRuns == \A w \in 1..MaxWorkers : wpc[w] \in {"unstarted", "exit"}

\* C5: keyBatches is closed after the last send; DumpDB returns nil only
\* with nWorkers done signals received; once it has returned no worker runs
\* and nothing more is written to the sink.
C5_ReturnsAfterWorkers ==
    [][/\ closed => sent' = sent
       /\ pc' = "returned" => NoWorkerRuns'
       /\ (pc' = "returned" /\ ret' = "nil") => (closed' /\ nDone' = nWorkers)
       /\ pc = "returned" => (sink' = sink /\ wpc' = wpc)]_vars

\* C5 witness: DumpDB returned after two workers wrote to the sink.
C5_Witness ==
    /\ Returned
    /\ ret = "nil"
    /\ nWorkers >= 2
    /\ Len(sent) >= 2
    /\ Len(sink) >= 3

\* C6: with at least one worker and a progress channel that is nil or
\* drained, DumpDB returns; and with a nil channel no notification is sent.
C6_DumpDBReturns ==
    /\ (nWorkers >= 1 /\ progress # "blocked") ~> Returned
    /\ [][progress = "nil" => notes' = notes]_vars

\* C6 witness: DumpDB returned after keys failed, with progress drained.
C6_Witness ==
    /\ Returned
    /\ ret = "nil"
    /\ progress = "drained"
    /\ Len(keys) >= 1
    /\ failed # {}
    /\ notes # <<>>

\* C7: in the notifications sent, Done does not decrease, Total is the
\* number of keys scanned, and 0 < Done <= Total.
C7_ProgressMonotone ==
    \A j \in 1..Len(notes) :
        /\ notes[j].Total = Len(keys)
        /\ 0 < notes[j].Done
        /\ notes[j].Done <= notes[j].Total
        /\ j > 1 => notes[j - 1].Done <= notes[j].Done

\* C7 witness: two notifications of one dump.
C7_Witness ==
    /\ Len(notes) >= 2
    /\ notes[1].Done < notes[2].Done

LastNote == notes[Len(notes)]

\* A dump of a non-empty database with a drained progress channel returned.
DumpWithProgressDone ==
    Returned /\ ret = "nil" /\ progress = "drained" /\ Len(keys) > 0

\* C8 as stated: the last notification before DumpDB returns has
\* Done = Total.
C8_LastDoneIsTotal ==
    DumpWithProgressDone => (notes # <<>> /\ LastNote.Done = LastNote.Total)

\* C8 amended: a notification was sent, the last one has Done equal to the
\* number of keys submitted, and Done = Total unless the loop was stopped by
\* a non-zero error count.
C8_LastDoneIsTotalUnlessStopped ==
    DumpWithProgressDone =>
        /\ notes # <<>>
        /\ LastNote.Done = Len(Concat(sent))
        /\ seen = 0 => LastNote.Done = LastNote.Total

\* C8 witness: all batches went out although a key failed, and the last
\* Done is Total.
C8_Witness ==
    /\ DumpWithProgressDone
    /\ seen = 0
    /\ failed # {}
    /\ Len(notes) >= 2
    /\ LastNote.Done = Len(keys)

SelectLine == LogLine("", SelectCmd)

\* C9: the SELECT line is written once, first in the sink, only after the
\* store's SELECT succeeded, before the scan and before any worker runs.
C9_SelectFirstAndOnce ==
    /\ sink # <<>> => (stage \in {"select", "scan"} /\ sink[1] = SelectLine)
    /\ \A j \in 2..Len(sink) : sink[j].key # "" /\ sink[j] # SelectLine
    /\ pc \in {"pool", "select", "logselect"} => sink = <<>>
    /\ (stage = "scan" \/ pc = "scan") => sink # <<>>
    /\ (\E w \in 1..MaxWorkers : wpc[w] # "unstarted") => sink # <<>>
    /\ pc = "scan" => (Len(sink) = 1 /\ keys = <<>> /\ NoWorkerRuns)

\* C9 witness: two workers wrote lines after the SELECT line, out of key
\* order.
C9_Witness ==
    /\ Returned
    /\ nWorkers >= 2
    /\ Len(sink) >= 3
    /\ sink[1] = SelectLine
    /\ \E a, b \in 2..Len(sink) : sink[a].key = "k1" /\ sink[b].key = "k3" /\ b < a

\* C10: DumpDB returns nil exactly when pool creation, SELECT and the scan
\* succeeded, whatever keys failed; it returns an error only before any
\* worker was started.
C10_ReturnIgnoresKeyErrors ==
    Returned =>
        /\ ret \in {"nil", "err"}
        /\ ret = "nil" <=> stage = "scan"
        /\ ret = "err" => (failed = {} /\ sent = <<>> /\ nErrors = 0)

\* C10 witness: DumpDB returned nil after a transport error and an
\* unrecognized type.
C10_Witness ==
    /\ Returned
    /\ ret = "nil"
    /\ nErrors >= 2
    /\ \E a, b \in 1..Len(stderr) :
          stderr[a].kind = "transport" /\ stderr[b].kind = "unrecognized"

\* The errors dumpKeys has returned so far: held by a worker that is sending
\* one, by the collector, or written to os.Stderr.
ErrorsRaised ==
    {werr[w] : w \in 1..MaxWorkers}
        \cup (IF cpc = "count" THEN {cerr} ELSE {})
        \cup {stderr[j] : j \in 1..Len(stderr)}

\* The keys the scan returned.
Scanned == {keys[j] : j \in 1..Len(keys)}

\* The types the switch of dumpKeys has a case for.
KnownTypes == ValueTypes \cup {"none"}

\* C12: for a key whose TYPE reply is none of string, list, set, hash, zset
\* and none, dumpKeys returned an error that names the key and the reply,
\* and no line was written to the sink for that key.
C12_UnknownTypeFailsUnwritten ==
    \A k \in Scanned :
        keyType[k] \notin KnownTypes \cup {"unqueried", "error"} =>
            /\ k \in failed
            /\ UnrecognizedType(k, keyType[k]) \in ErrorsRaised
            /\ LinesOf(k) = {}

\* C12 witness: the second key of a batch is of an unknown type; its error
\* is on os.Stderr and the sink has the line of the key before it only.
C12_Witness ==
    /\ Returned
    /\ keyType["k1"] = "string"
    /\ keyType["k2"] = "stream"
    /\ LinesOf("k1") # {}
    /\ LinesOf("k2") = {}
    /\ \E j \in 1..Len(stderr) : stderr[j] = UnrecognizedType("k2", "stream")

\* Sink line j holds an EXPIREAT command.
IsExpireAt(j) == Len(sink[j].cmd) = 3 /\ sink[j].cmd[1] = "EXPIREAT"

\* The sink lines that hold an EXPIREAT command for key k.
ExpireLines(k) == {j \in 1..Len(sink) : IsExpireAt(j) /\ sink[j].cmd[2] = k}

Busy == {w \in 1..MaxWorkers : wbatch[w] # <<>>}

\* The number of batches submitted whose dumpKeys call has not returned.
InFlight == Len(sent) - finished

\* C17: the batches submitted and not finished are at most nWorkers, each
\* is held by exactly one worker and no two workers hold the same one; a
\* batch is submitted only to a worker that holds none, which then holds it.
C17_Backpressure ==
    /\ [](/\ InFlight <= nWorkers
          /\ InFlight = Cardinality(Busy)
          /\ Busy \subseteq Workers
          /\ \A w \in Busy :
                /\ \E b \in 1..Len(sent) : sent[b] = wbatch[w]
                /\ \A v \in Busy : v # w => wbatch[v] # wbatch[w])
    /\ [][sent' # sent =>
            \E w \in Workers :
                /\ w \notin Busy
                /\ wbatch'[w] = sent'[Len(sent')]
                /\ Busy' = Busy \cup {w}]_vars

\* C17 witness: the only worker holds the first batch at its second key,
\* and the dispatcher waits with the second batch for it.
C17_Witness ==
    /\ nWorkers = 1
    /\ Busy = Workers
    /\ InFlight = 1
    /\ pc = "send"
    /\ Len(sent) = 1
    /\ wpos[1] = 2

\* The keys a worker is done with: dumpKeys went through the whole iteration
\* for them, or returned an error at them.
Processed == {k \in AllKeys : expiry[k].is # "unqueried"} \cup failed

\* C18 as stated: when a notification is sent, at least Done keys have been
\* processed by the workers.
C18_DoneCountsDumpedKeys ==
    [][notes' # notes => Cardinality(Processed) >= notes'[Len(notes')].Done]_vars

\* C20 as stated: when DumpDB has returned, the collector holds no error it
\* has still to write and count: every error sent on the errors channel is
\* on os.Stderr and in nErrors.
C20_ErrorsHandledAtReturn ==
    Returned =>
        /\ cpc # "count"
        /\ Len(stderr) = Cardinality(failed)
        /\ nErrors = Cardinality(failed)

\* C19 as stated: at most one batch is sent after nErrors has become
\* non-zero.
C19_AtMostOneLateBatch == late <= 1

IsDigit(c) == \E d \in 0..9 : Digit(d) = c

DigitValue(c) == CHOOSE d \in 0..9 : Digit(d) = c

At(b, p) == IF p >= 1 /\ p <= Len(b) THEN b[p] ELSE ""

RECURSIVE ReadNat(_, _, _)
\* The decimal number that starts at position p of b, after acc: its value
\* and the position after it.
ReadNat(b, p, acc) ==
    IF IsDigit(At(b, p)) THEN ReadNat(b, p + 1, 10 * acc + DigitValue(b[p]))
    ELSE [n |-> acc, next |-> p]

\* A line "<marker><number>\r\n" at position p of b.
ReadHeader(b, p, marker) ==
    LET num == ReadNat(b, p + 1, 0) IN
    [ok |-> /\ At(b, p) = marker
            /\ IsDigit(At(b, p + 1))
            /\ At(b, num.next) = "\r"
            /\ At(b, num.next + 1) = "\n",
     n |-> num.n,
     next |-> num.next + 2]

RECURSIVE ReadBulks(_, _, _, _)
\* count length-prefixed strings from position p of b, after acc.
ReadBulks(b, p, count, acc) ==
    IF count = 0 THEN [ok |-> p = Len(b) + 1, args |-> acc]
    ELSE LET h == ReadHeader(b, p, "$")
             end == h.next + h.n
         IN IF h.ok /\ end + 1 <= Len(b) /\ At(b, end) = "\r" /\ At(b, end + 1) = "\n"
               THEN ReadBulks(b, end + 2, count - 1,
                              Append(acc, SubSeq(b, h.next, end - 1)))
               ELSE [ok |-> FALSE, args |-> <<>>]

\* b read as a length-prefixed array of length-prefixed strings.
ParseRESP(b) ==
    LET h == ReadHeader(b, 1, "*") IN
    IF h.ok THEN ReadBulks(b, h.next, h.n, <<>>)
    ELSE [ok |-> FALSE, args |-> <<>>]

\* C15: what RESPSerializer returns for a command reads back, as an array of
\* length-prefixed strings, as the same sequence of arguments, and it starts
\* with "*", the number of arguments and CR LF.
C15_RESPRoundTrip ==
    (call.fn = "RESPSerializer" /\ result.done) =>
        /\ ParseRESP(result.val) = [ok |-> TRUE, args |-> call.arg]
        /\ SubSeq(result.val, 1, Len(ItoaBytes(Len(call.arg))) + 3)
              = <<"*">> \o ItoaBytes(Len(call.arg)) \o CRLF

\* C15 witness: a command with an empty argument and one that holds CR LF
\* was serialized.
C15_Witness ==
    /\ call.fn = "RESPSerializer"
    /\ result.done
    /\ call.arg = <<<<>>, <<"\r", "\n">>>>
    /\ result.val = <<"*", "2", "\r", "\n", "$", "0", "\r", "\n", "\r", "\n",
                      "$", "2", "\r", "\n", "\r", "\n", "\r", "\n">>

\* The command C16 tells for the flat reply val = [m1, s1, ..., mn, sn].
ScoreMemberPairs(k, val) ==
    <<"ZADD", k>>
        \o [j \in 1..Len(val) |-> IF j % 2 = 1 THEN val[j + 1] ELSE val[j - 1]]

\* C16: for a reply of even length zsetToRedisCmd returns ZADD, the key and,
\* for each member and the score after it, in the order of the reply, the
\* score and then the member.
C16_ZsetScoreBeforeMember ==
    (call.fn = "zsetToRedisCmd" /\ result.done /\ Len(call.arg) % 2 = 0) =>
        result.val = ScoreMemberPairs(call.key, call.arg)

\* C16 witness: two pairs went through zsetToRedisCmd.
C16_Witness ==
    /\ call.fn = "zsetToRedisCmd"
    /\ result.done
    /\ call.arg = <<"a", "1", "b", "1">>
    /\ result.val = <<"ZADD", "z", "1", "a", "1", "b">>

\* What C14 tells for a text of the given lines: an error when a line has a
\* bad index or an index above 16, else the indices of the index lines.
KeyspaceIndices(lines) ==
    IF \E j \in 1..Len(lines) :
          lines[j].is = "bad" \/ (lines[j].is = "index" /\ lines[j].n > 16)
       THEN ParseFailed
       ELSE LET IsIndex(l) == l.is = "index"
                found == SelectSeq(lines, IsIndex)
            IN Indices([j \in 1..Len(found) |-> found[j].n])

\* C14 as stated: parseKeyspaceInfo returns the indices of the db<N>: lines
\* in line order and skips every other line; it returns an error and no
\* index when an index is no unsigned integer or is above 16.
C14_IndicesOfDbLines ==
    (call.fn = "parseKeyspaceInfo" /\ result.done) =>
        result.val = KeyspaceIndices(call.arg.lines)

\* C11: DumpServer calls DumpDB for the databases in the order of dbs; a
\* call starts only when the call before has returned nil and none of its
\* workers runs; when a call returns an error DumpServer returns an error and
\* calls DumpDB no more; it returns nil only after all calls returned nil.
C11_DatabasesOneAfterAnother ==
    /\ [](/\ Len(calls) <= Len(dbs)
          /\ \A j \in 1..Len(calls) :
                /\ calls[j].db = dbs[j]
                /\ j < Len(calls) => calls[j].ret = "nil"
          /\ spc # "indb" => NoWorkerRuns
          /\ (spc = "returned" /\ sret = "nil") =>
                (Len(calls) = Len(dbs) /\ \A j \in 1..Len(calls) : calls[j].ret = "nil")
          /\ (spc = "returned" /\ sret = "err" /\ calls # <<>>) =>
                calls[Len(calls)].ret = "err")
    /\ [][/\ Len(calls') > Len(calls) =>
                /\ NoWorkerRuns
                /\ calls # <<>> => (pc = "returned" /\ calls[Len(calls)].ret = "nil")
          /\ (calls # <<>> /\ calls[Len(calls)].ret = "err") =>
                (calls' = calls /\ sret' = "err" /\ spc' = "returned")]_vars

\* C11 witness: databases 0 and 5 were found and dumped one after the
\* other: the sink holds SELECT 0 and the line of the key of database 0, then
\* SELECT 5 and the line of the key of database 5.
C11_Witness ==
    /\ spc = "returned"
    /\ sret = "nil"
    /\ dbs = <<0, 5>>
    /\ calls = <<[db |-> 0, ret |-> "nil"], [db |-> 5, ret |-> "nil"]>>
    /\ sink = <<LogLine("", <<"SELECT", "0">>), LogLine("k1", <<"SET", "k1", "v">>),
                LogLine("", <<"SELECT", "5">>), LogLine("k1", <<"SET", "k1", "v">>)>>

====
